---------------------------- MODULE Spec2Model ----------------------------
(***************************************************************************)
(* Model of the early-risk flag engine: risk_utils.compute_flags (batch)   *)
(* and server.compute_flags (serving).                                     *)
(*                                                                         *)
(* A DataFrame is a function from column names to columns; a column is a   *)
(* sequence of values, one per record.  A cell of an input column is a     *)
(* record: Num(v) for a number, NaN for a missing value, Text for a        *)
(* non-numeric string.  Numbers are fixed-point, in ten-thousandths: the   *)
(* float 1.0 is 10000, 0.35 is 3500, 80 is 800000.  Every cell value used  *)
(* is a multiple of 0.01, so that the division by 100.0 is exact.          *)
(* Flag columns and risk_score hold plain integers, risk_tier and reasons  *)
(* hold strings.                                                           *)
(***************************************************************************)
EXTENDS Integers, Sequences, FiniteSets, TLC

VARIABLES
    caller_df,   \* the table object the caller holds and passes to compute_flags
    before,      \* contents of that table object just before the last invocation
    ret,         \* the table the last invocation returned
    status,      \* "none" | "ok" | "TypeError" | "ValueError"
    pc,          \* "loaded" | "batch" | "server" | "rerun"
    first        \* output of the first run, kept when the engine is run again on it

vars == <<caller_df, before, ret, status, pc, first>>

-----------------------------------------------------------------------------
(* Cells *)

Num(v) == [k |-> "num", v |-> v]
NaN    == [k |-> "nan", v |-> 0]
Text   == [k |-> "text", v |-> 0]

IsNum(x) == x.k = "num"

\* Series.isnull(): only a missing value is null, a string is not
isnull(x) == x.k = "nan"

NRows(df) == Len(df["Customer ID"])

\* df[c] = col
Assign(df, c, col) ==
    [x \in (DOMAIN df) \cup {c} |-> IF x = c THEN col ELSE df[x]]

\* df[c] = scalar (broadcast to every record)
Broadcast(df, v) == [i \in 1..NRows(df) |-> v]

\* pd.to_numeric(col, errors='coerce'): a string that is no number becomes NaN
to_numeric(col) == [i \in DOMAIN col |-> IF col[i].k = "text" THEN NaN ELSE col[i]]

\* Series.fillna(v)
fillna(col, v) == [i \in DOMAIN col |-> IF isnull(col[i]) THEN Num(v) ELSE col[i]]

HasText(col) == \E i \in DOMAIN col : col[i].k = "text"

AllNull(col) == \A i \in DOMAIN col : isnull(col[i])

NumVals(col) == {col[i].v : i \in {j \in DOMAIN col : IsNum(col[j])}}

\* Series.max() with skipna: NaN when there is no number
ColMax(col) ==
    IF NumVals(col) = {} THEN NaN
    ELSE Num(CHOOSE m \in NumVals(col) : \A x \in NumVals(col) : x <= m)

\* comparisons of a cell with a number; any comparison with NaN is False
Gt(x, c) == IsNum(x) /\ x.v > c
Ge(x, c) == IsNum(x) /\ x.v >= c
Le(x, c) == IsNum(x) /\ x.v <= c
Ne(x, c) == ~IsNum(x) \/ x.v # c

\* s / 100.0
Hundred == 100
DivHundred(col) ==
    [i \in DOMAIN col |-> IF IsNum(col[i]) THEN Num(col[i].v \div Hundred) ELSE col[i]]

\* clip with the upper bound forgotten
ClipNoUpper(col, lo, hi) ==
    [i \in DOMAIN col |->
        IF ~IsNum(col[i]) THEN col[i]
        ELSE IF col[i].v < lo THEN Num(lo)
        ELSE col[i]]

\* Series.clip(lower, upper): NaN stays NaN
clip(col, lo, hi) ==
    [i \in DOMAIN col |->
        IF ~IsNum(col[i]) THEN col[i]
        ELSE IF col[i].v < lo THEN Num(lo)
        ELSE IF col[i].v > hi THEN Num(hi)
        ELSE col[i]]

\* (boolean Series).astype(int)
astype_int(b) == IF b THEN 1 ELSE 0

-----------------------------------------------------------------------------
(* Program constants, in ten-thousandths *)

ScaleMax       == 15000     \* 1.5
ClipLower      == 0         \* 0.0
ClipUpper      == 10000     \* 1.0
UtilSpikeMin   == 800000    \* 80
SpendChangeMin == 200000    \* 20
MinDueMin      == 20000     \* 2
LowPayMax      == 4000      \* 0.4
CashMin        == 0         \* 0
CashUtilMin    == 700000    \* 70
MerchantMax    == 3500      \* 0.35
ServerPayFill      == 10000 \* fillna(1)
ServerMerchantFill == 10000 \* fillna(1)

REQUIRED_COLUMNS ==
    <<"Customer ID", "Credit Limit", "Utilisation %", "Avg Payment Ratio",
      "Min Due Paid Frequency", "Merchant Mix Index", "Cash Withdrawal %",
      "Recent Spend Change %", "DPD Bucket Next Month">>

-----------------------------------------------------------------------------
(* pandas pieces shared by both engines *)

\* df[flag_cols].sum(axis=1)
RECURSIVE SumCols(_, _, _)
SumCols(df, cols, i) ==
    IF cols = <<>> THEN 0 ELSE df[Head(cols)][i] + SumCols(df, Tail(cols), i)

\* pd.cut(x, bins, labels): intervals open on the left, closed on the right;
\* a value in no interval is missing
RECURSIVE cut(_, _, _)
cut(x, bins, labels) ==
    IF Len(bins) < 2 THEN "NaN"
    ELSE IF bins[1] < x /\ x <= bins[2] THEN labels[1]
    ELSE cut(x, Tail(bins), Tail(labels))

\* ', '.join(reasons)
RECURSIVE join(_)
join(r) ==
    IF r = <<>> THEN ""
    ELSE IF Len(r) = 1 THEN r[1]
    ELSE r[1] \o ", " \o join(Tail(r))

Truthy(n) == n # 0


-----------------------------------------------------------------------------
(* risk_utils.py: the batch engine *)

\* Result of a call that may raise: exc is "none" or the exception's name
Returned(v) == [exc |-> "none", val |-> v]
Raised(e, v) == [exc |-> e, val |-> v]

\* normalize_merchant_mix with the final clip left out
NormalizeNoClip(series) ==
    IF AllNull(series) THEN Returned(series)
    ELSE IF HasText(series) THEN Raised("TypeError", series)
    ELSE Returned(IF Gt(ColMax(series), ScaleMax) THEN DivHundred(series) ELSE series)

\* s.max() > 1.5 and s / 100.0 on a column holding a string raise TypeError
normalize_merchant_mix(series) ==
    IF AllNull(series) THEN Returned(series)
    ELSE IF HasText(series) THEN Raised("TypeError", series)
    ELSE LET s == IF Gt(ColMax(series), ScaleMax) THEN DivHundred(series) ELSE series
         IN  Returned(clip(s, ClipLower, ClipUpper))

RECURSIVE AddMissing(_, _)
AddMissing(df, cs) ==
    IF cs = <<>> THEN df
    ELSE AddMissing(IF Head(cs) \notin DOMAIN df
                    THEN Assign(df, Head(cs), Broadcast(df, NaN))
                    ELSE df,
                    Tail(cs))

safe_load_defaults(df) == AddMissing(df, REQUIRED_COLUMNS)

numeric_cols ==
    <<"Utilisation %", "Avg Payment Ratio", "Min Due Paid Frequency",
      "Cash Withdrawal %", "Recent Spend Change %">>

\* the numeric columns filled with 1.0 instead of 0.0
RECURSIVE CoerceNumericFillOne(_, _)
CoerceNumericFillOne(df, cs) ==
    IF cs = <<>> THEN df
    ELSE LET c  == Head(cs)
             d1 == IF c \notin DOMAIN df THEN Assign(df, c, Broadcast(df, Num(0))) ELSE df
         IN  CoerceNumericFillOne(Assign(d1, c, fillna(to_numeric(d1[c]), ClipUpper)), Tail(cs))

RECURSIVE CoerceNumeric(_, _)
CoerceNumeric(df, cs) ==
    IF cs = <<>> THEN df
    ELSE LET c  == Head(cs)
             d1 == IF c \notin DOMAIN df THEN Assign(df, c, Broadcast(df, Num(0))) ELSE df
         IN  CoerceNumeric(Assign(d1, c, fillna(to_numeric(d1[c]), 0)), Tail(cs))

ScaleAvgPaymentRatio(df) ==
    LET d1 == IF Gt(ColMax(df["Avg Payment Ratio"]), ScaleMax)
              THEN Assign(df, "Avg Payment Ratio", DivHundred(df["Avg Payment Ratio"]))
              ELSE df
    IN  Assign(d1, "Avg Payment Ratio", clip(d1["Avg Payment Ratio"], ClipLower, ClipUpper))

flag_util_spike(df) ==
    [i \in 1..NRows(df) |->
        astype_int(Ge(df["Utilisation %"][i], UtilSpikeMin)
                   /\ Ge(df["Recent Spend Change %"][i], SpendChangeMin))]

flag_min_due_streak(df) ==
    [i \in 1..NRows(df) |-> astype_int(Ge(df["Min Due Paid Frequency"][i], MinDueMin))]

flag_low_pay_ratio(df) ==
    [i \in 1..NRows(df) |-> astype_int(Le(df["Avg Payment Ratio"][i], LowPayMax))]

\* the utilisation bound of the cash-advance rule made inclusive
CashAdvanceInclusive(df) ==
    [i \in 1..NRows(df) |->
        astype_int(Gt(df["Cash Withdrawal %"][i], CashMin)
                   /\ Ge(df["Utilisation %"][i], CashUtilMin))]

flag_cash_advance(df) ==
    [i \in 1..NRows(df) |->
        astype_int(Gt(df["Cash Withdrawal %"][i], CashMin)
                   /\ Gt(df["Utilisation %"][i], CashUtilMin))]

flag_merchant_shift(df) ==
    [i \in 1..NRows(df) |-> astype_int(Le(df["MerchantMix_norm"][i], MerchantMax))]

SetFlags(df) ==
    LET d1 == Assign(df, "flag_util_spike", flag_util_spike(df))
        d2 == Assign(d1, "flag_min_due_streak", flag_min_due_streak(d1))
        d3 == Assign(d2, "flag_low_pay_ratio", flag_low_pay_ratio(d2))
        d4 == Assign(d3, "flag_cash_advance", flag_cash_advance(d3))
    IN  Assign(d4, "flag_merchant_shift", flag_merchant_shift(d4))

\* flag_cols with the last flag dropped
FlagColsShort ==
    <<"flag_util_spike", "flag_min_due_streak", "flag_low_pay_ratio", "flag_cash_advance">>

flag_cols ==
    <<"flag_util_spike", "flag_min_due_streak", "flag_low_pay_ratio",
      "flag_cash_advance", "flag_merchant_shift">>

risk_score(df) == [i \in 1..NRows(df) |-> SumCols(df, flag_cols, i)]

\* bins with the Medium bucket one too wide
TierBinsWide == <<-1, 0, 2, 999>>

tier_bins == <<-1, 0, 1, 999>>

tier_labels == <<"Low", "Medium", "High">>

risk_tier(df) == [i \in 1..NRows(df) |-> cut(df["risk_score"][i], tier_bins, tier_labels)]

\* reasons with the payment-ratio label appended before the min-due label
ReasonsSwapped(df, i) ==
    LET r1 == IF Truthy(df["flag_util_spike"][i]) THEN <<"Util Spike">> ELSE <<>>
        r2 == IF Truthy(df["flag_low_pay_ratio"][i]) THEN Append(r1, "Low Payment Ratio") ELSE r1
        r3 == IF Truthy(df["flag_min_due_streak"][i]) THEN Append(r2, "Min Due Streak") ELSE r2
        r4 == IF Truthy(df["flag_cash_advance"][i]) THEN Append(r3, "Cash Advance") ELSE r3
        r5 == IF Truthy(df["flag_merchant_shift"][i]) THEN Append(r4, "Merchant Mix Shift") ELSE r4
    IN  IF r5 # <<>> THEN join(r5) ELSE "None"

reasons_for_row(df, i) ==
    LET r1 == IF Truthy(df["flag_util_spike"][i]) THEN <<"Util Spike">> ELSE <<>>
        r2 == IF Truthy(df["flag_min_due_streak"][i]) THEN Append(r1, "Min Due Streak") ELSE r1
        r3 == IF Truthy(df["flag_low_pay_ratio"][i]) THEN Append(r2, "Low Payment Ratio") ELSE r2
        r4 == IF Truthy(df["flag_cash_advance"][i]) THEN Append(r3, "Cash Advance") ELSE r3
        r5 == IF Truthy(df["flag_merchant_shift"][i]) THEN Append(r4, "Merchant Mix Shift") ELSE r4
    IN  IF r5 # <<>> THEN join(r5) ELSE "None"

\* The DPD columns hold numbers or NaN in every table considered here
target_positive(df) ==
    LET next == fillna(df["DPD Bucket Next Month"], 0)
    IN  IF "Current DPD Bucket" \in DOMAIN df /\ ~AllNull(df["Current DPD Bucket"])
        THEN LET cur == fillna(df["Current DPD Bucket"], 0)
             IN  [i \in 1..NRows(df) |-> astype_int(next[i].v > cur[i].v)]
        ELSE [i \in 1..NRows(df) |-> astype_int(Ne(next[i], 0))]

\* compute_flags(df) of risk_utils.py, on its own copy of df
compute_flags(df) ==
    LET d1 == safe_load_defaults(df)
        nm == normalize_merchant_mix(d1["Merchant Mix Index"])
    IN  IF nm.exc # "none" THEN Raised(nm.exc, d1)
        ELSE LET d2 == Assign(d1, "MerchantMix_norm", nm.val)
                 d3 == CoerceNumeric(d2, numeric_cols)
                 d4 == ScaleAvgPaymentRatio(d3)
                 d5 == SetFlags(d4)
                 d6 == Assign(d5, "risk_score", risk_score(d5))
                 d7 == Assign(d6, "risk_tier", risk_tier(d6))
                 d8 == Assign(d7, "reasons", [i \in 1..NRows(d7) |-> reasons_for_row(d7, i)])
             IN  Returned(Assign(d8, "target_positive", target_positive(d8)))

-----------------------------------------------------------------------------
(* server.py: the serving engine, which works on df itself *)

\* series.copy().astype(float) raises ValueError on a string that is no number
server_normalize_merchant_mix(series) ==
    IF AllNull(series) THEN Returned(series)
    ELSE IF HasText(series) THEN Raised("ValueError", series)
    ELSE LET s == IF Gt(ColMax(series), ScaleMax) THEN DivHundred(series) ELSE series
         IN  Returned(clip(s, ClipLower, ClipUpper))

server_numeric_cols ==
    <<"Utilisation %", "Avg Payment Ratio", "Min Due Paid Frequency",
      "Cash Withdrawal %", "Recent Spend Change %">>

RECURSIVE ServerCoerceNumeric(_, _)
ServerCoerceNumeric(df, cs) ==
    IF cs = <<>> THEN df
    ELSE LET c  == Head(cs)
             d1 == IF c \notin DOMAIN df THEN Assign(df, c, Broadcast(df, NaN)) ELSE df
         IN  ServerCoerceNumeric(Assign(d1, c, to_numeric(d1[c])), Tail(cs))

ServerScaleAvgPaymentRatio(df) ==
    LET d1 == IF Gt(ColMax(df["Avg Payment Ratio"]), ScaleMax)
              THEN Assign(df, "Avg Payment Ratio", DivHundred(df["Avg Payment Ratio"]))
              ELSE df
    IN  Assign(d1, "Avg Payment Ratio",
               fillna(clip(d1["Avg Payment Ratio"], ClipLower, ClipUpper), 0))

server_flag_util_spike(df) ==
    [i \in 1..NRows(df) |->
        astype_int(Ge(fillna(df["Utilisation %"], 0)[i], UtilSpikeMin)
                   /\ Ge(fillna(df["Recent Spend Change %"], 0)[i], SpendChangeMin))]

server_flag_min_due_streak(df) ==
    [i \in 1..NRows(df) |->
        astype_int(Ge(fillna(df["Min Due Paid Frequency"], 0)[i], MinDueMin))]

server_flag_low_pay_ratio(df) ==
    [i \in 1..NRows(df) |->
        astype_int(Le(fillna(df["Avg Payment Ratio"], ServerPayFill)[i], LowPayMax))]

server_flag_cash_advance(df) ==
    [i \in 1..NRows(df) |->
        astype_int(Gt(fillna(df["Cash Withdrawal %"], 0)[i], CashMin)
                   /\ Gt(fillna(df["Utilisation %"], 0)[i], CashUtilMin))]

server_flag_merchant_shift(df) ==
    [i \in 1..NRows(df) |->
        astype_int(Le(fillna(df["MerchantMix_norm"], ServerMerchantFill)[i], MerchantMax))]

ServerSetFlags(df) ==
    LET d1 == Assign(df, "flag_util_spike", server_flag_util_spike(df))
        d2 == Assign(d1, "flag_min_due_streak", server_flag_min_due_streak(d1))
        d3 == Assign(d2, "flag_low_pay_ratio", server_flag_low_pay_ratio(d2))
        d4 == Assign(d3, "flag_cash_advance", server_flag_cash_advance(d3))
    IN  Assign(d4, "flag_merchant_shift", server_flag_merchant_shift(d4))

server_flag_cols ==
    <<"flag_util_spike", "flag_min_due_streak", "flag_low_pay_ratio",
      "flag_cash_advance", "flag_merchant_shift">>

server_risk_score(df) == [i \in 1..NRows(df) |-> SumCols(df, server_flag_cols, i)]

server_risk_tier(df) ==
    [i \in 1..NRows(df) |-> cut(df["risk_score"][i], <<-1, 0, 1, 999>>, <<"Low", "Medium", "High">>)]

get_reasons(df, i) ==
    LET r1 == IF Truthy(df["flag_util_spike"][i]) THEN <<"Util Spike">> ELSE <<>>
        r2 == IF Truthy(df["flag_min_due_streak"][i]) THEN Append(r1, "Min Due Streak") ELSE r1
        r3 == IF Truthy(df["flag_low_pay_ratio"][i]) THEN Append(r2, "Low Payment Ratio") ELSE r2
        r4 == IF Truthy(df["flag_cash_advance"][i]) THEN Append(r3, "Cash Advance") ELSE r3
        r5 == IF Truthy(df["flag_merchant_shift"][i]) THEN Append(r4, "Merchant Mix Shift") ELSE r4
    IN  IF r5 # <<>> THEN join(r5) ELSE "None"

\* compute_flags(df) of server.py; val is df as the call leaves it
server_compute_flags(df) ==
    LET d1 == ServerCoerceNumeric(df, server_numeric_cols)
        nm == IF "Merchant Mix Index" \in DOMAIN d1
              THEN server_normalize_merchant_mix(d1["Merchant Mix Index"])
              ELSE Returned(Broadcast(d1, NaN))
    IN  IF nm.exc # "none" THEN Raised(nm.exc, d1)
        ELSE LET d2 == Assign(d1, "MerchantMix_norm", nm.val)
                 d3 == ServerScaleAvgPaymentRatio(d2)
                 d4 == ServerSetFlags(d3)
                 d5 == Assign(d4, "risk_score", server_risk_score(d4))
                 d6 == Assign(d5, "risk_tier", server_risk_tier(d5))
             IN  Returned(Assign(d6, "reasons", [i \in 1..NRows(d6) |-> get_reasons(d6, i)]))

-----------------------------------------------------------------------------
(* The tables the callers load (pd.read_csv / pd.read_excel) *)

MaxRows == 2

\* A column the table does not have
Absent == [k |-> "absent", v |-> 0]

InputCols ==
    {"Utilisation %", "Avg Payment Ratio", "Min Due Paid Frequency",
     "Merchant Mix Index", "Cash Withdrawal %", "Recent Spend Change %"}

UtilDom   == {Text, Num(700000), Num(800000), Num(850000)}
SpendDom  == {NaN, Num(200000), Num(250000)}
MinDueDom == {NaN, Num(0), Num(20000)}
CashDom   == {NaN, Num(0), Num(50000)}
PayDom    == {NaN, Num(0), Num(4000), Num(9000), Num(400000), Num(1600000)}
MerchDom  == {NaN, Text, Num(0), Num(3500), Num(9000), Num(350000)}

\* Columns of the records after the first one: the two columns whose
\* column-wide maximum decides the rescaling vary, the others are fixed
PayDomMore   == {NaN, Num(9000), Num(400000), Num(1600000), Num(-50000)}
MerchDomMore == {NaN, Text, Num(9000), Num(350000), Num(-50000)}

CustomerIds(n) == [i \in 1..n |-> Num(i)]

\* cells: column name -> column, the empty column for one the table lacks
MkTable(n, cells) ==
    [c \in {x \in InputCols : cells[x] # <<>>} \cup {"Customer ID"} |->
        IF c = "Customer ID" THEN CustomerIds(n) ELSE cells[c]]

Lift(x) == IF x = Absent THEN <<>> ELSE <<x>>

OneRowTable(u, p, m, x, w, r) ==
    MkTable(1, [c \in InputCols |->
                    CASE c = "Utilisation %"          -> Lift(u)
                      [] c = "Avg Payment Ratio"      -> Lift(p)
                      [] c = "Min Due Paid Frequency" -> Lift(m)
                      [] c = "Merchant Mix Index"     -> Lift(x)
                      [] c = "Cash Withdrawal %"      -> Lift(w)
                      [] c = "Recent Spend Change %"  -> Lift(r)])

\* f[i] = <<Avg Payment Ratio, Merchant Mix Index>> of record i
ManyRowTable(n, f) ==
    MkTable(n, [c \in InputCols |->
                    CASE c = "Utilisation %"          -> [i \in 1..n |-> Num(850000)]
                      [] c = "Avg Payment Ratio"      -> [i \in 1..n |-> f[i][1]]
                      [] c = "Min Due Paid Frequency" -> [i \in 1..n |-> Num(0)]
                      [] c = "Merchant Mix Index"     -> [i \in 1..n |-> f[i][2]]
                      [] c = "Cash Withdrawal %"      -> [i \in 1..n |-> Num(50000)]
                      [] c = "Recent Spend Change %"  -> [i \in 1..n |-> NaN]])

\* The caller's table is one of the input tables
Loaded(df) ==
    \/ \E u \in UtilDom \cup {Absent}, p \in PayDom \cup {Absent},
          m \in MinDueDom \cup {Absent}, x \in MerchDom \cup {Absent},
          w \in CashDom \cup {Absent}, r \in SpendDom \cup {Absent} :
            df = OneRowTable(u, p, m, x, w, r)
    \/ \E n \in 2..MaxRows :
          \E f \in [1..n -> PayDomMore \X MerchDomMore] : df = ManyRowTable(n, f)

NoTable == [c \in {"Customer ID"} |-> <<>>]

-----------------------------------------------------------------------------
(* The state machine *)

Init ==
    /\ Loaded(caller_df)
    /\ before = caller_df
    /\ ret = NoTable
    /\ status = "none"
    /\ pc = "loaded"
    /\ first = NoTable

Outcome(r) == IF r.exc = "none" THEN "ok" ELSE r.exc

\* early_risk_pipeline.run_pipeline: df = compute_flags(df); the engine works
\* on df.copy(), the caller's table object is left as it was
BatchComputeFlags ==
    /\ pc = "loaded"
    /\ LET r == compute_flags(caller_df)
       IN  /\ ret' = IF r.exc = "none" THEN r.val ELSE NoTable
           /\ status' = Outcome(r)
    /\ before' = caller_df
    /\ caller_df' = caller_df
    /\ pc' = "batch"
    /\ UNCHANGED first

\* server.upload_file: df = compute_flags(df); the engine assigns into the
\* caller's table object and returns that same object
ServerComputeFlags ==
    /\ pc = "loaded"
    /\ LET r == server_compute_flags(caller_df)
       IN  /\ caller_df' = r.val
           /\ ret' = IF r.exc = "none" THEN r.val ELSE NoTable
           /\ status' = Outcome(r)
    /\ before' = caller_df
    /\ pc' = "server"
    /\ UNCHANGED first

\* the batch engine run again, on the table its first run returned
BatchOnOutput ==
    /\ pc = "batch"
    /\ status = "ok"
    /\ LET r == compute_flags(ret)
       IN  /\ ret' = IF r.exc = "none" THEN r.val ELSE NoTable
           /\ status' = Outcome(r)
    /\ first' = ret
    /\ caller_df' = ret
    /\ before' = ret
    /\ pc' = "rerun"

Next ==
    \/ BatchComputeFlags
    \/ ServerComputeFlags
    \/ BatchOnOutput

Spec == Init /\ [][Next]_vars

-----------------------------------------------------------------------------
(* Vocabulary of the properties *)

BatchReturned == pc \in {"batch", "rerun"} /\ status = "ok"
ServerReturned == pc = "server" /\ status = "ok"
EngineReturned == BatchReturned \/ ServerReturned

Records == 1..NRows(ret)

FlagNames ==
    {"flag_util_spike", "flag_min_due_streak", "flag_low_pay_ratio",
     "flag_cash_advance", "flag_merchant_shift"}

FlagsSet(i) == {f \in FlagNames : ret[f][i] = 1}

\* The cell of record i in column c of the table passed in; missing when the
\* table lacks the column
InCell(c, i) == IF c \in DOMAIN before THEN before[c][i] ELSE NaN

\* The input value, taken as 0.0 when missing or unparseable
InVal(c, i) == IF IsNum(InCell(c, i)) THEN InCell(c, i).v ELSE 0

InMissing(c, i) == InCell(c, i) = NaN

IsBit(n) == n \in {0, 1}

UnitInterval(x) == IsNum(x) /\ 0 <= x.v /\ x.v <= 10000

\* C1: in every record of a returned table, each flag is 0 or 1 and
\* risk_score is an integer in 0..5 equal to the number of flags that are 1
C1_ScoreCountsFlags ==
    EngineReturned =>
        \A i \in Records :
            /\ \A f \in FlagNames : IsBit(ret[f][i])
            /\ ret["risk_score"][i] \in 0..5
            /\ ret["risk_score"][i] = Cardinality(FlagsSet(i))

C1_Witness ==
    /\ pc = "batch" /\ status = "ok"
    /\ \E i \in Records : ret["risk_score"][i] = 5 /\ FlagsSet(i) = FlagNames

\* C2: risk_tier is never missing and is Low iff risk_score = 0, Medium iff
\* risk_score = 1, High iff risk_score >= 2
C2_TierFromScore ==
    EngineReturned =>
        \A i \in Records :
            /\ ret["risk_tier"][i] \in {"Low", "Medium", "High"}
            /\ (ret["risk_tier"][i] = "Low") <=> (ret["risk_score"][i] = 0)
            /\ (ret["risk_tier"][i] = "Medium") <=> (ret["risk_score"][i] = 1)
            /\ (ret["risk_tier"][i] = "High") <=> (ret["risk_score"][i] >= 2)

C2_Witness ==
    /\ EngineReturned
    /\ NRows(ret) = 2
    /\ ret["risk_score"][1] = 2 /\ ret["risk_tier"][1] = "High"
    /\ ret["risk_score"][2] = 3

\* C3: in the batch engine each flag equals its rule, evaluated on the input
\* values (0.0 when missing or unparseable), the normalised Avg Payment Ratio
\* and MerchantMix_norm, independently of the other flags
C3_FlagsFollowRules ==
    BatchReturned =>
        \A i \in Records :
            /\ (ret["flag_util_spike"][i] = 1) <=>
                   (InVal("Utilisation %", i) >= 800000
                    /\ InVal("Recent Spend Change %", i) >= 200000)
            /\ (ret["flag_min_due_streak"][i] = 1) <=>
                   (InVal("Min Due Paid Frequency", i) >= 20000)
            /\ (ret["flag_low_pay_ratio"][i] = 1) <=>
                   (IsNum(ret["Avg Payment Ratio"][i])
                    /\ ret["Avg Payment Ratio"][i].v <= 4000)
            /\ (ret["flag_cash_advance"][i] = 1) <=>
                   (InVal("Cash Withdrawal %", i) > 0
                    /\ InVal("Utilisation %", i) > 700000)
            /\ (ret["flag_merchant_shift"][i] = 1) <=>
                   (IsNum(ret["MerchantMix_norm"][i])
                    /\ ret["MerchantMix_norm"][i].v <= 3500)
            /\ \A f \in FlagNames : IsBit(ret[f][i])

C3_Witness ==
    /\ pc = "batch" /\ status = "ok"
    /\ InCell("Utilisation %", 1) = Num(700000)
    /\ InCell("Cash Withdrawal %", 1) = Num(50000)
    /\ InCell("Min Due Paid Frequency", 1) = Num(20000)
    /\ InCell("Avg Payment Ratio", 1) = Num(4000)
    /\ ret["flag_cash_advance"][1] = 0
    /\ ret["flag_min_due_streak"][1] = 1
    /\ ret["flag_low_pay_ratio"][1] = 1

\* C4 as stated: in every record of a batch output, MerchantMix_norm and the
\* normalised Avg Payment Ratio are numbers in [0,1], never missing
C4_Original ==
    BatchReturned =>
        \A i \in Records :
            /\ UnitInterval(ret["MerchantMix_norm"][i])
            /\ UnitInterval(ret["Avg Payment Ratio"][i])

\* C4 amended: the normalised Avg Payment Ratio is a number in [0,1];
\* MerchantMix_norm is missing exactly where the input Merchant Mix Index is
\* missing, and a number in [0,1] everywhere else
C4_NormalisedRange ==
    BatchReturned =>
        \A i \in Records :
            /\ UnitInterval(ret["Avg Payment Ratio"][i])
            /\ (ret["MerchantMix_norm"][i] = NaN) <=> InMissing("Merchant Mix Index", i)
            /\ ~InMissing("Merchant Mix Index", i) => UnitInterval(ret["MerchantMix_norm"][i])

C4_Witness ==
    /\ pc = "batch" /\ status = "ok"
    /\ NRows(ret) = 2
    /\ InCell("Merchant Mix Index", 1) = NaN
    /\ InCell("Merchant Mix Index", 2) = Num(-50000)
    /\ InCell("Avg Payment Ratio", 1) = Num(1600000)
    /\ InCell("Avg Payment Ratio", 2) = Num(-50000)
    /\ ret["MerchantMix_norm"] = <<NaN, Num(0)>>
    /\ ret["Avg Payment Ratio"] = <<Num(10000), Num(0)>>

\* The labels of the flags of a set, in the fixed order
LabelOf ==
    <<<<"flag_util_spike", "Util Spike">>,
      <<"flag_min_due_streak", "Min Due Streak">>,
      <<"flag_low_pay_ratio", "Low Payment Ratio">>,
      <<"flag_cash_advance", "Cash Advance">>,
      <<"flag_merchant_shift", "Merchant Mix Shift">>>>

RECURSIVE LabelsFrom(_, _)
LabelsFrom(k, on) ==
    IF k > Len(LabelOf) THEN <<>>
    ELSE IF LabelOf[k][1] \in on THEN <<LabelOf[k][2]>> \o LabelsFrom(k + 1, on)
    ELSE LabelsFrom(k + 1, on)

RECURSIVE CommaJoined(_)
CommaJoined(ls) ==
    IF Len(ls) = 1 THEN ls[1]
    ELSE CommaJoined(SubSeq(ls, 1, Len(ls) - 1)) \o ", " \o ls[Len(ls)]

\* C5: reasons is the ", "-joined list of exactly the labels of the flags that
\* are 1, in the fixed order, as many labels as risk_score; it is "None" if
\* and only if risk_score = 0
C5_ReasonsListFlags ==
    EngineReturned =>
        \A i \in Records :
            LET ls == LabelsFrom(1, FlagsSet(i))
            IN  /\ Len(ls) = ret["risk_score"][i]
                /\ ls # <<>> => ret["reasons"][i] = CommaJoined(ls)
                /\ (ret["reasons"][i] = "None") <=> (ret["risk_score"][i] = 0)

C5_Witness ==
    /\ EngineReturned
    /\ ret["risk_score"][1] = 5
    /\ ret["reasons"][1] =
           "Util Spike, Min Due Streak, Low Payment Ratio, Cash Advance, Merchant Mix Shift"

\* C6 as stated: whatever the cells of the recognised columns hold (number,
\* missing, non-numeric text) and whichever of those columns are absent, the
\* engine returns a scored table with one record per input record
C6_NeverRaises ==
    pc # "loaded" =>
        /\ status = "ok"
        /\ NRows(ret) = NRows(before)
        /\ FlagNames \cup {"risk_score", "risk_tier", "reasons"} \subseteq DOMAIN ret

\* C7: the batch engine run on its own output gives every record the same
\* five flags, risk_score, risk_tier and reasons as the first run gave
C7_Idempotent ==
    pc = "rerun" =>
        /\ status = "ok"
        /\ NRows(ret) = NRows(first)
        /\ \A c \in FlagNames \cup {"risk_score", "risk_tier", "reasons"} :
               ret[c] = first[c]

\* the first run clipped a rescaled Avg Payment Ratio to 1.0 and flagged record 1
C7_Witness ==
    /\ pc = "rerun" /\ status = "ok"
    /\ first["Avg Payment Ratio"][1] = Num(10000)
    /\ first["MerchantMix_norm"][1] = Num(3500)
    /\ first["risk_score"][1] >= 1

\* One record with Utilisation % = 85 and Recent Spend Change % = 25, each
\* other input zero or missing (a missing cell or an absent column)
ZeroOrMissing(c) == InCell(c, 1) \in {Num(0), NaN}

C8_Case ==
    /\ pc \in {"batch", "server"}
    /\ status = "ok"
    /\ NRows(before) = 1
    /\ InCell("Utilisation %", 1) = Num(850000)
    /\ InCell("Recent Spend Change %", 1) = Num(250000)
    /\ ZeroOrMissing("Avg Payment Ratio")
    /\ ZeroOrMissing("Min Due Paid Frequency")
    /\ ZeroOrMissing("Merchant Mix Index")
    /\ ZeroOrMissing("Cash Withdrawal %")

\* C8 as stated: only flag_util_spike is 1, risk_score = 1, risk_tier =
\* Medium, reasons = "Util Spike"
C8_Original ==
    (C8_Case /\ pc = "batch") =>
        /\ ret["flag_util_spike"][1] = 1
        /\ ret["flag_min_due_streak"][1] = 0
        /\ ret["flag_low_pay_ratio"][1] = 0
        /\ ret["flag_cash_advance"][1] = 0
        /\ ret["flag_merchant_shift"][1] = 0
        /\ ret["risk_score"][1] = 1
        /\ ret["risk_tier"][1] = "Medium"
        /\ ret["reasons"][1] = "Util Spike"

\* C8 amended: flag_util_spike = 1 and flag_low_pay_ratio = 1 (a zero or
\* missing payment ratio is <= 0.4), flag_min_due_streak = flag_cash_advance
\* = 0, flag_merchant_shift = 1 exactly when Merchant Mix Index is zero
\* rather than missing; risk_score is 2 or 3, risk_tier is High and reasons
\* is "Util Spike, Low Payment Ratio", followed by ", Merchant Mix Shift"
\* when Merchant Mix Index is zero
C8_Example ==
    C8_Case =>
        LET zero == InCell("Merchant Mix Index", 1) = Num(0)
        IN  /\ ret["flag_util_spike"][1] = 1
            /\ ret["flag_min_due_streak"][1] = 0
            /\ ret["flag_low_pay_ratio"][1] = 1
            /\ ret["flag_cash_advance"][1] = 0
            /\ ret["flag_merchant_shift"][1] = IF zero THEN 1 ELSE 0
            /\ ret["risk_score"][1] = IF zero THEN 3 ELSE 2
            /\ ret["risk_tier"][1] = "High"
            /\ ret["reasons"][1] =
                   IF zero THEN "Util Spike, Low Payment Ratio, Merchant Mix Shift"
                   ELSE "Util Spike, Low Payment Ratio"

C8_Witness ==
    /\ C8_Case
    /\ pc = "batch"
    /\ InCell("Merchant Mix Index", 1) = Num(0)
    /\ InCell("Cash Withdrawal %", 1) = NaN
    /\ "Avg Payment Ratio" \notin DOMAIN before
    /\ ret["risk_score"][1] = 3

\* C9 as stated: after an invocation the table object the caller passed has
\* the same columns and the same cell values as before the invocation
C9_ArgumentUntouched ==
    pc # "loaded" =>
        /\ DOMAIN caller_df = DOMAIN before
        /\ \A c \in DOMAIN before : caller_df[c] = before[c]

\* C10 as stated: for a record whose Avg Payment Ratio is missing, in a table
\* whose column is not rescaled, the serving engine sets flag_low_pay_ratio
\* = 0 and the batch engine sets it to 1
NotRescaled ==
    "Avg Payment Ratio" \in DOMAIN before =>
        ~Gt(ColMax(to_numeric(before["Avg Payment Ratio"])), 15000)

C10_CallersDiffer ==
    \A i \in 1..NRows(before) :
        (status = "ok" /\ InMissing("Avg Payment Ratio", i) /\ NotRescaled) =>
            /\ pc = "server" => ret["flag_low_pay_ratio"][i] = 0
            /\ pc = "batch" => ret["flag_low_pay_ratio"][i] = 1

=============================================================================
